---- MODULE Spec2Model ----
(***************************************************************************)
(* Model of src/app.py: a Streamlit application that extracts the audio of *)
(* an uploaded video, splits it into fixed-duration chunks, sends each     *)
(* chunk to a Whisper HTTP endpoint and joins the returned texts.          *)
(*                                                                         *)
(* Python values are modelled as tagged records: None is NoneVal, a str is *)
(* Str(s) with s a sequence of one-character strings.  An AudioSegment is  *)
(* modelled by the interval of the recording it covers, in milliseconds    *)
(* (pydub indexes and measures AudioSegments in milliseconds).             *)
(***************************************************************************)
EXTENDS Integers, Sequences, FiniteSets, TLC

VARIABLES
    pc,                \* position of the single thread of control
    audio_len,         \* len(sound): duration of the decoded audio, ms
    chunk_duration_ms, \* the chunk_duration_ms argument of split_audio
    decodable,         \* input: whether lines 65-78 succeed on the upload
    chunks,            \* list returned by split_audio
    i,                 \* loop index of "for i, chunk in enumerate(chunks)"
    transcribed_text,  \* the list transcribed_text of transcribe_video
    chunk_text,        \* value returned by transcribe_chunk for chunk i
    replies,           \* history: outcome of the backend call of each window
    temp_files,        \* windows whose temp_chunk.wav currently exists
    video_temp_dir,    \* whether transcribe_video's TemporaryDirectory exists
    progress,          \* calls progress_bar.progress(x), x as <<num, den>>
    previews,          \* st.text_area "intermediate_<i>" calls: <<i, text>>
    errors,            \* st.error calls
    fault,             \* which step raised the exception being propagated
    result,            \* value returned by transcribe_video
    main_view          \* what main() shows after transcribe_video returns

vars == <<pc, audio_len, chunk_duration_ms, decodable, chunks, i,
          transcribed_text, chunk_text, replies, temp_files, video_temp_dir,
          progress, previews, errors, fault, result, main_view>>

---------------------------------------------------------------------------
(* Bounds of the model *)

\* The audio holds at most MaxFullChunks full chunks (plus a remainder).
MaxFullChunks == 2
\* Bounds of the inputs of split_audio when it is checked on its own.
MaxDur == 12
MaxChunk == 8

\* Default of split_audio's chunk_duration_ms parameter (5 minutes).
DefaultChunkMs == 300000

---------------------------------------------------------------------------
(* Python values *)

NoneVal == [kind |-> "None"]
Str(s) == [kind |-> "str", val |-> s]

\* bool(v) for v None or a str: "if chunk_text:", "if transcribed_text:"
Truthy(v) == v.kind = "str" /\ v.val # <<>>

\* " ".join(parts) for a list of str
RECURSIVE JoinSpace(_)
JoinSpace(parts) ==
    IF parts = <<>> THEN <<>>
    ELSE IF Len(parts) = 1 THEN parts[1]
    ELSE parts[1] \o <<" ">> \o JoinSpace(Tail(parts))

---------------------------------------------------------------------------
(* split_audio *)

Min(a, b) == IF a < b THEN a ELSE b

\* range(lo, n, step) as the sequence of its values, step > 0
RECURSIVE RangeFrom(_, _, _)
RangeFrom(lo, n, step) ==
    IF lo >= n THEN <<>> ELSE <<lo>> \o RangeFrom(lo + step, n, step)

\* audio_segment[lo:hi] on an audio of length n: pydub clamps to the end
SliceAudio(n, lo, hi) == [start |-> lo, len |-> Min(hi, n) - lo]

\* a split that forgets the shorter last chunk
split_audio_short(n, step) ==
    [k \in 1..(n \div step) |-> SliceAudio(n, (k - 1) * step, k * step)]

\* a split whose range also takes the end of the audio as a start
RECURSIVE RangeThrough(_, _, _)
RangeThrough(lo, n, step) ==
    IF lo > n THEN <<>> ELSE <<lo>> \o RangeThrough(lo + step, n, step)

split_audio_inclusive(n, step) ==
    LET starts == RangeThrough(0, n, step)
    IN  [k \in 1..Len(starts) |-> SliceAudio(n, starts[k], starts[k] + step)]

split_audio(n, step) ==
    LET starts == RangeFrom(0, n, step)
    IN  [k \in 1..Len(starts) |-> SliceAudio(n, starts[k], starts[k] + step)]

---------------------------------------------------------------------------
(* The Whisper endpoint: what one requests.post can produce *)

RawSeg == [start |-> 0, end |-> 1]

\* JSON objects of a 2xx response.  A body may carry timed segments next to
\* its text, and may lack the 'text' key.
Bodies ==
    { [text |-> <<"a">>, segments |-> <<>>],
      [text |-> <<"b">>, segments |-> <<RawSeg>>],
      [text |-> <<>>,    segments |-> <<>>],
      [segments |-> <<>>] }

\* Outcomes of lines 33-35 for one window:
\*   network   requests.post raises (a RequestException)
\*   http      raise_for_status raises HTTPError (a RequestException)
\*   ok        a 2xx response whose JSON body is an object
\*   nonobject a 2xx response whose JSON body is not an object, so that
\*             .get raises AttributeError (not a RequestException)
\* A 2xx response whose body is not JSON makes response.json() raise: a
\* RequestException in requests >= 2.27 (as http here), a ValueError before
\* (as nonobject here).  The 'text' values are str.
Replies ==
    { [kind |-> "network"], [kind |-> "http"], [kind |-> "nonobject"] }
    \cup { [kind |-> "ok", body |-> b] : b \in Bodies }

\* a reading of the reply under a key the endpoint does not send
response_text_wrong_key(body) ==
    IF "transcription" \in DOMAIN body THEN Str(body.transcription)
    ELSE Str(<<>>)

\* response.json().get('text', '')

response_text(body) ==
    IF "text" \in DOMAIN body THEN Str(body.text) ELSE Str(<<>>)

\* an except clause that catches connection errors only, and lets an
\* HTTPError pass without a report
CaughtByApi_connection_only(r) == r.kind = "network"

\* the except clause of call_whisper_api catches RequestException only
CaughtByApi(r) == r.kind \in {"network", "http"}
Raises(r) == r.kind = "nonobject"

\* a call_whisper_api that returns the error message on a failure
call_whisper_api_error_text(r) ==
    IF r.kind = "ok" THEN response_text(r.body) ELSE Str(<<"E">>)

\* value call_whisper_api returns when it returns
call_whisper_api(r) ==
    IF r.kind = "ok" THEN response_text(r.body) ELSE NoneVal

---------------------------------------------------------------------------
(* Initial states *)

Durations ==
    { q * DefaultChunkMs + r : q \in 0..MaxFullChunks, r \in {0, 1} }

InitCommon ==
    /\ chunks = <<>>
    /\ i = 0
    /\ transcribed_text = <<>>
    /\ chunk_text = NoneVal
    /\ replies = <<>>
    /\ temp_files = {}
    /\ video_temp_dir = FALSE
    /\ progress = <<>>
    /\ previews = <<>>
    /\ errors = <<>>
    /\ fault = "none"
    /\ result = NoneVal
    /\ main_view = "none"

\* main() with a file uploaded and an endpoint URL configured
Init ==
    /\ pc = "main"
    /\ audio_len \in Durations
    /\ chunk_duration_ms = DefaultChunkMs
    /\ decodable \in BOOLEAN
    /\ InitCommon

---------------------------------------------------------------------------
(* main and transcribe_video *)

\* lines 163-167: the button is pressed, the progress bar is created and
\* transcribe_video is entered
Main_Click ==
    /\ pc = "main"
    /\ pc' = "decode"
    /\ UNCHANGED <<audio_len, chunk_duration_ms, decodable, chunks, i,
                   transcribed_text, chunk_text, replies, temp_files,
                   video_temp_dir, progress, previews, errors, fault,
                   result, main_view>>

\* lines 63-82: save the upload, extract and load the audio, split it.
\* Any exception of these lines leaves the with block and reaches line 103.
\* The warning of line 72 needs more than an hour of audio, which Durations
\* does not reach.
Decode ==
    /\ pc = "decode"
    /\ IF decodable
       THEN /\ chunks' = split_audio(audio_len, chunk_duration_ms)
            /\ video_temp_dir' = TRUE
            /\ pc' = "loop"
            /\ fault' = fault
       ELSE /\ chunks' = chunks
            /\ video_temp_dir' = FALSE
            /\ pc' = "except"
            /\ fault' = "decode"
    /\ transcribed_text' = <<>>
    /\ i' = 0
    /\ UNCHANGED <<audio_len, chunk_duration_ms, decodable, chunk_text,
                   replies, temp_files, progress, previews, errors, result,
                   main_view>>

\* a progress value that counts only the chunks already finished
progress_value_after(idx, n) == <<idx, n>>

\* the value passed to progress_bar.progress at line 85, as a fraction

progress_value(idx, n) == <<idx + 1, n>>

\* lines 83-86: the loop takes chunk i and reports progress
LoopProgress ==
    /\ pc = "loop"
    /\ i < Len(chunks)
    /\ progress' = Append(progress, progress_value(i, Len(chunks)))
    /\ pc' = "export"
    /\ UNCHANGED <<audio_len, chunk_duration_ms, decodable, chunks, i,
                   transcribed_text, chunk_text, replies, temp_files,
                   video_temp_dir, previews, errors, fault, result, main_view>>

\* lines 53-55: transcribe_chunk writes the chunk to temp_chunk.wav
Export ==
    /\ pc = "export"
    /\ temp_files' = temp_files \cup {i}
    /\ pc' = "post"
    /\ UNCHANGED <<audio_len, chunk_duration_ms, decodable, chunks, i,
                   transcribed_text, chunk_text, replies, video_temp_dir,
                   progress, previews, errors, fault, result, main_view>>

\* lines 53-55: audio_chunk.export raises (the file cannot be written); the
\* with block of line 53 removes its directory and the exception goes on
ExportRaise ==
    /\ pc = "export"
    /\ fault' = "export"
    /\ pc' = "except"
    /\ UNCHANGED <<audio_len, chunk_duration_ms, decodable, chunks, i,
                   transcribed_text, chunk_text, replies, temp_files,
                   video_temp_dir, progress, previews, errors, result,
                   main_view>>

\* lines 26-38: the request is sent and answered
ApiCall ==
    /\ pc = "post"
    /\ \E r \in Replies :
         /\ replies' = Append(replies, r)
         /\ errors' = IF CaughtByApi(r)
                         THEN Append(errors, [from |-> "whisper", window |-> i])
                         ELSE errors
    /\ pc' = "exit"
    /\ UNCHANGED <<audio_len, chunk_duration_ms, decodable, chunks, i,
                   transcribed_text, chunk_text, temp_files, video_temp_dir,
                   progress, previews, fault, result, main_view>>

\* a cleanup that runs only when the call returned a text
released_on_success_only(files, idx, r) ==
    IF r.kind = "ok" THEN files \ {idx} ELSE files

\* files left when the with blocks of lines 26 and 53 are left
released(files, idx, r) == files \ {idx}

\* lines 26, 53, 56: call_whisper_api returns or raises, the with blocks
\* close the file and remove the temporary directory
ExitChunk ==
    /\ pc = "exit"
    /\ LET r == replies[Len(replies)]
       IN  /\ temp_files' = released(temp_files, i, r)
           /\ IF Raises(r)
              THEN /\ fault' = "response"
                   /\ pc' = "except"
                   /\ chunk_text' = chunk_text
              ELSE /\ fault' = fault
                   /\ pc' = "record"
                   /\ chunk_text' = call_whisper_api(r)
    /\ UNCHANGED <<audio_len, chunk_duration_ms, decodable, chunks, i,
                   transcribed_text, replies, video_temp_dir, progress,
                   previews, errors, result, main_view>>

\* a test "if chunk_text is not None:"
keeps_any(v) == v.kind = "str"

\* "if chunk_text:" of line 89

keeps(v) == Truthy(v)

\* lines 88-99: the chunk's text is kept when it is truthy, with a preview
\* after every second chunk; the loop moves on
Record ==
    /\ pc = "record"
    /\ IF keeps(chunk_text)
       THEN /\ transcribed_text' = Append(transcribed_text, chunk_text.val)
            /\ previews' =
                 IF i % 2 = 0
                 THEN Append(previews,
                             <<i, JoinSpace(Append(transcribed_text,
                                                   chunk_text.val))>>)
                 ELSE previews
       ELSE UNCHANGED <<transcribed_text, previews>>
    /\ i' = i + 1
    /\ pc' = "loop"
    /\ UNCHANGED <<audio_len, chunk_duration_ms, decodable, chunks,
                   chunk_text, replies, temp_files, video_temp_dir, progress,
                   errors, fault, result, main_view>>

\* line 101: every chunk was taken; the texts are joined and returned
Return ==
    /\ pc = "loop"
    /\ i = Len(chunks)
    /\ result' = Str(JoinSpace(transcribed_text))
    /\ video_temp_dir' = FALSE
    /\ pc' = "returned"
    /\ UNCHANGED <<audio_len, chunk_duration_ms, decodable, chunks, i,
                   transcribed_text, chunk_text, replies, temp_files,
                   progress, previews, errors, fault, main_view>>

\* lines 103-105: any exception raised inside the try block
Except ==
    /\ pc = "except"
    /\ errors' = Append(errors, [from |-> "transcribe_video", window |-> i])
    /\ result' = NoneVal
    /\ video_temp_dir' = FALSE
    /\ pc' = "returned"
    /\ UNCHANGED <<audio_len, chunk_duration_ms, decodable, chunks, i,
                   transcribed_text, chunk_text, replies, temp_files,
                   progress, previews, fault, main_view>>

\* lines 175-193: main shows the transcript when it is truthy
Main_Show ==
    /\ pc = "returned"
    /\ main_view' = IF Truthy(result) THEN "success" ELSE "nothing"
    /\ pc' = "done"
    /\ UNCHANGED <<audio_len, chunk_duration_ms, decodable, chunks, i,
                   transcribed_text, chunk_text, replies, temp_files,
                   video_temp_dir, progress, previews, errors, fault, result>>

Next ==
    \/ Main_Click
    \/ Decode
    \/ LoopProgress
    \/ Export
    \/ ExportRaise
    \/ ApiCall
    \/ ExitChunk
    \/ Record
    \/ Return
    \/ Except
    \/ Main_Show

Spec == Init /\ [][Next]_vars

---------------------------------------------------------------------------
(* split_audio on its own, for every length and chunk duration *)

InitSplit ==
    /\ pc = "split"
    /\ audio_len \in 0..MaxDur
    /\ chunk_duration_ms \in 1..MaxChunk
    /\ decodable = TRUE
    /\ InitCommon

SplitCall ==
    /\ pc = "split"
    /\ chunks' = split_audio(audio_len, chunk_duration_ms)
    /\ pc' = "split_done"
    /\ UNCHANGED <<audio_len, chunk_duration_ms, decodable, i,
                   transcribed_text, chunk_text, replies, temp_files,
                   video_temp_dir, progress, previews, errors, fault, result,
                   main_view>>

SplitSpec == InitSplit /\ [][SplitCall]_vars

---------------------------------------------------------------------------
(* Vocabulary of the properties *)

Returned == pc \in {"returned", "done"}
ReturnedText == Returned /\ result.kind = "str"

\* window k's backend call failed: a network fault or a non-success response
BackendFailed(k) == replies[k].kind \in {"network", "http"}

\* the text the backend returned for window k; empty when the call failed,
\* when the body has no 'text' field and when the field is empty
TextOf(k) ==
    IF replies[k].kind = "ok" /\ "text" \in DOMAIN replies[k].body
    THEN replies[k].body.text
    ELSE <<>>

\* the non-empty texts of windows 1..n, in window order
RECURSIVE PiecesUpTo(_)
PiecesUpTo(n) ==
    IF n = 0 THEN <<>>
    ELSE IF TextOf(n) # <<>> THEN Append(PiecesUpTo(n - 1), TextOf(n))
    ELSE PiecesUpTo(n - 1)

\* the texts of the windows of 1..n whose call did not fail, concatenated
\* in window order with one space between two texts that are not empty
RECURSIVE ConcatNotFailed(_)
ConcatNotFailed(n) ==
    IF n = 0 THEN <<>>
    ELSE LET before == ConcatNotFailed(n - 1)
             mine == IF BackendFailed(n) THEN <<>> ELSE TextOf(n)
         IN  IF mine = <<>> THEN before
             ELSE IF before = <<>> THEN mine
             ELSE before \o <<" ">> \o mine

RECURSIVE SumLen(_)
SumLen(cs) == IF cs = <<>> THEN 0 ELSE cs[1].len + SumLen(Tail(cs))

\* the failure list carried by the value transcribe_video returned
ReturnedFailures ==
    IF "failures" \in DOMAIN result THEN result.failures ELSE <<>>

\* the timed segments carried by a value transcribe_chunk returned
SegmentsOf(v) == IF "segments" \in DOMAIN v THEN v.segments ELSE <<>>

AllBackendFailed ==
    /\ Len(chunks) > 0
    /\ Len(replies) = Len(chunks)
    /\ \A k \in 1..Len(replies) : BackendFailed(k)

\* every window's backend call succeeded (its text may be empty)
AllSucceeded ==
    /\ Len(chunks) > 0
    /\ Len(replies) = Len(chunks)
    /\ \A k \in 1..Len(replies) : replies[k].kind = "ok"

\* the windows of 1..n whose reply holds a non-empty text, in window order
RECURSIVE SourceWindows(_)
SourceWindows(n) ==
    IF n = 0 THEN <<>>
    ELSE IF TextOf(n) # <<>> THEN Append(SourceWindows(n - 1), n)
    ELSE SourceWindows(n - 1)

---------------------------------------------------------------------------
(* Properties *)

\* C1: isolation and order.  At every point of a run the accumulated list
\* holds exactly the texts of the windows taken so far whose backend call
\* did not fail, in increasing window order; and the transcript a run
\* returns is the concatenation, in window order, of the results of the
\* windows whose call did not fail.  A failed window contributes nothing
\* and what another window contributes depends on that window's reply alone.
C1_IsolationAndOrder ==
    /\ i <= Len(replies)
    /\ transcribed_text = PiecesUpTo(i)
    /\ JoinSpace(transcribed_text) = ConcatNotFailed(i)
    /\ ReturnedText =>
         /\ Len(replies) = Len(chunks)
         /\ result.val = ConcatNotFailed(Len(chunks))

\* three windows, the second fails: the transcript is the first and third
C1_Witness ==
    /\ ReturnedText
    /\ Len(chunks) = 3
    /\ ~BackendFailed(1) /\ BackendFailed(2) /\ ~BackendFailed(3)
    /\ result.val = <<"a", " ", "b">>

\* C2, as claimed: every failure of one window's recognition step, an
\* exception raised while writing the chunk or while handling the response
\* included, stays in that window: the run goes on to every window and
\* returns the texts of the windows that succeeded.
C2_AsClaimed ==
    (Returned /\ decodable) =>
        /\ i = Len(chunks)
        /\ Len(progress) = Len(chunks)
        /\ result = Str(JoinSpace(PiecesUpTo(i)))

\* C3, as claimed: when every window's backend call fails the run returns
\* an empty transcript together with a failure list of one entry per window.
C3_AsClaimed ==
    (Returned /\ AllBackendFailed) =>
        /\ result.kind = "str"
        /\ result.val = <<>>
        /\ Len(ReturnedFailures) = Len(chunks)

\* C3, amended: when every window's backend call fails the run returns the
\* empty string and nothing else; one error per window has been reported
\* with st.error, in window order; and main shows neither a result nor a
\* success message.
C3_AllFailedReported ==
    (Returned /\ AllBackendFailed) =>
        /\ result = Str(<<>>)
        /\ ReturnedFailures = <<>>
        /\ Len(errors) = Len(chunks)
        /\ \A k \in 1..Len(errors) :
             errors[k] = [from |-> "whisper", window |-> k - 1]
        /\ pc = "done" => main_view = "nothing"

C3_Witness ==
    /\ pc = "done"
    /\ AllBackendFailed
    /\ Len(chunks) = 3
    /\ Len(errors) = 3
    /\ replies[1].kind = "network" /\ replies[2].kind = "http"

\* C4: for an audio of length D > 0 and a chunk duration C > 0, split_audio
\* returns ceil(D/C) windows; window k (from 0) starts at k*C; every window
\* is non-empty; every window but the last has length C; the last has
\* length D - (count-1)*C; and the lengths sum to D.
C4_SplitAudio ==
    (pc = "split_done" /\ audio_len > 0) =>
        LET n == Len(chunks)
            D == audio_len
            C == chunk_duration_ms
        IN  /\ n >= 1
            /\ (n - 1) * C < D
            /\ D <= n * C
            /\ \A k \in 1..n :
                 /\ chunks[k].start = (k - 1) * C
                 /\ chunks[k].len > 0
                 /\ k < n => chunks[k].len = C
            /\ chunks[n].len = D - (n - 1) * C
            /\ SumLen(chunks) = D

\* an exact multiple: two windows of full length and no empty third one
C4_Witness ==
    /\ pc = "split_done"
    /\ audio_len = 8
    /\ chunk_duration_ms = 4
    /\ chunks = << [start |-> 0, len |-> 4], [start |-> 4, len |-> 4] >>

\* C5, as claimed: when the progress event of a window has just been
\* emitted, the count it reports is the number of windows whose backend
\* call has returned.
C5_AsClaimed ==
    (pc = "export") =>
        progress[Len(progress)][1] = Len(replies)

\* C5, amended: windows are taken one at a time in increasing order; the
\* progress event of window k (from 0) is emitted before that window's
\* backend call and reports (k+1)/total, one more than the number of calls
\* that have returned; the reported counts are 1, 2, ... up to total.
C5_ProgressBeforeCall ==
    /\ \A j \in 1..Len(progress) : progress[j] = <<j, Len(chunks)>>
    /\ Len(progress) <= Len(chunks)
    /\ Len(replies) <= Len(progress)
    /\ Len(progress) <= Len(replies) + 1
    /\ pc \in {"export", "post"} =>
         /\ Len(progress) = i + 1
         /\ Len(replies) = i
         /\ progress[Len(progress)][1] = Len(replies) + 1
    /\ pc \in {"loop", "record", "exit"} => Len(replies) = Len(progress)
    /\ ReturnedText => Len(progress) = Len(chunks)

\* the third window's call is about to be made and 3 of 3 is on display
C5_Witness ==
    /\ pc = "post"
    /\ Len(replies) = 2
    /\ progress = << <<1, 3>>, <<2, 3>>, <<3, 3>> >>

\* C6: the chunk file exists only while transcribe_chunk runs for its own
\* window: it is gone after every exit of transcribe_chunk (a text, a
\* failed call, an exception), and two windows' files never exist together.
C6_TempFileReleased ==
    /\ Cardinality(temp_files) <= 1
    /\ temp_files \subseteq {i}
    /\ pc \notin {"post", "exit"} => temp_files = {}
    /\ pc \in {"post", "exit"} => temp_files = {i}

\* the second window's call failed, the third raised, and no file is left
C6_Witness ==
    /\ pc = "except"
    /\ fault = "response"
    /\ i = 2
    /\ BackendFailed(2)
    /\ temp_files = {}

\* C7: for an audio of duration 0 split_audio yields no window, the backend
\* is never called, no progress and no error is reported, and the run
\* returns the empty transcript.
C7_ZeroDuration ==
    (audio_len = 0 /\ decodable /\ pc \notin {"main", "decode"}) =>
        /\ chunks = <<>>
        /\ pc \in {"loop", "returned", "done"}
        /\ replies = <<>>
        /\ transcribed_text = <<>>
        /\ temp_files = {}
        /\ progress = <<>>
        /\ errors = <<>>
        /\ fault = "none"
        /\ Returned => result = Str(<<>>)

C7_Witness ==
    /\ pc = "done"
    /\ audio_len = 0
    /\ decodable
    /\ result = Str(<<>>)
    /\ errors = <<>>

\* C8, as claimed: a decode failure is the only fault that aborts the run,
\* and it aborts before any window is attempted, with an error outcome.
C8_AsClaimed ==
    /\ (Returned /\ result = NoneVal) => fault = "decode"
    /\ fault = "decode" =>
         /\ replies = <<>>
         /\ progress = <<>>
         /\ transcribed_text = <<>>
         /\ Returned => (result = NoneVal /\ Len(errors) = 1)

\* C9, as claimed: the value placed in the transcript for a window holds,
\* for every segment the backend returned, a segment whose start and end
\* are the raw ones plus the window's offset.
C9_AsClaimed ==
    (pc = "record" /\ replies[i + 1].kind = "ok") =>
        LET raw == replies[i + 1].body.segments
            placed == SegmentsOf(chunk_text)
        IN  /\ Len(placed) = Len(raw)
            /\ \A j \in 1..Len(raw) :
                 /\ placed[j].start = raw[j].start + chunks[i + 1].start
                 /\ placed[j].end = raw[j].end + chunks[i + 1].start

\* C9, amended: what is placed in the transcript for a window is the text
\* of the reply and nothing else: no segment, no start, no end, whatever
\* segments the reply holds; a reply whose text is empty places nothing.
\* When all windows succeed, the pieces of the transcript are the non-empty
\* texts in window order: piece j is the text of the j-th window that
\* returned a non-empty text, so the pieces follow the offsets k*C of the
\* windows they come from, which increase strictly; and when every text is
\* non-empty, piece k is the text of window k.
C9_TextOnlyInOffsetOrder ==
    /\ (pc = "record" /\ replies[i + 1].kind = "ok") =>
         /\ chunk_text = Str(TextOf(i + 1))
         /\ SegmentsOf(chunk_text) = <<>>
    /\ (ReturnedText /\ AllSucceeded) =>
         LET src == SourceWindows(Len(chunks))
         IN  /\ Len(transcribed_text) = Len(src)
             /\ \A j \in 1..Len(src) :
                  /\ transcribed_text[j] = replies[src[j]].body.text
                  /\ chunks[src[j]].start = (src[j] - 1) * chunk_duration_ms
                  /\ j > 1 => chunks[src[j - 1]].start < chunks[src[j]].start
             /\ result.val = JoinSpace([j \in 1..Len(src) |->
                                            replies[src[j]].body.text])
             /\ (\A k \in 1..Len(chunks) : TextOf(k) # <<>>) =>
                  /\ Len(transcribed_text) = Len(chunks)
                  /\ \A k \in 1..Len(chunks) :
                       transcribed_text[k] = replies[k].body.text

\* all three windows succeed, the first with an empty text, the second
\* with segments in its reply: the pieces are the texts of windows 2 and 3
C9_Witness ==
    /\ ReturnedText
    /\ AllSucceeded
    /\ Len(chunks) = 3
    /\ TextOf(1) = <<>>
    /\ replies[2].body.segments # <<>>
    /\ transcribed_text = << <<"b">>, <<"a">> >>
    /\ result.val = <<"b", " ", "a">>

\* C10: a window whose call succeeds with an empty text, or with a body
\* that has no 'text' field, adds nothing to the transcript and no error is
\* reported for it: errors are reported for failed calls only, the number
\* of pieces is the number of windows with a non-empty text, the returned
\* transcript is their single-space join, and it is empty when there is none.
C10_EmptyTextDropped ==
    LET nonEmpty == {k \in 1..i : TextOf(k) # <<>>}
        failed == {k \in 1..Len(replies) : BackendFailed(k)}
    IN  /\ Len(transcribed_text) = Cardinality(nonEmpty)
        /\ \A j \in 1..Len(transcribed_text) : transcribed_text[j] # <<>>
        /\ \A j \in 1..Len(errors) :
             errors[j].from = "whisper" =>
                 BackendFailed(errors[j].window + 1)
        /\ ReturnedText =>
             /\ result.val = JoinSpace(PiecesUpTo(Len(chunks)))
             /\ (nonEmpty = {}) = (result.val = <<>>)
             /\ Len(errors) = Cardinality(failed)

\* an empty text and a missing 'text' field around one real text
C10_Witness ==
    /\ ReturnedText
    /\ Len(chunks) = 3
    /\ replies[1] = [kind |-> "ok", body |-> [text |-> <<>>, segments |-> <<>>]]
    /\ replies[2] = [kind |-> "ok", body |-> [text |-> <<"a">>, segments |-> <<>>]]
    /\ replies[3] = [kind |-> "ok", body |-> [segments |-> <<>>]]
    /\ result.val = <<"a">>
    /\ errors = <<>>

====
